---- MODULE Spec2Model ----
(***************************************************************************)
(* Model of phone_format.py: harvest the phone metadata of every supported *)
(* region, add the derived fields, enrich the table with the Government of *)
(* Canada country codes, sort it and write it as JSON.                     *)
(*                                                                         *)
(* Python strings are sequences of one-character strings, a dict is a      *)
(* sequence of <<key, value>> pairs in insertion order, and a record of    *)
(* the table is a function from field names to values.                     *)
(***************************************************************************)
EXTENDS Integers, Sequences, FiniteSets, TLC

VARIABLES
    pc,                       \* the statement the program is at
    metadata,                 \* PhoneMetadata.metadata_for_region, per region
    response,                 \* what requests.get(url) will answer
    todo,                     \* the regions the harvest loop has still to visit,
                              \* in the iteration order of SUPPORTED_REGIONS
    phone_format_data,        \* the table
    pre_enrich,               \* the table as the enrichment's try block found it
    gc_data,                  \* response.json()
    iso_alpha_2_index,
    gc_id_index,
    gc_nm_ab_en_index,
    gc_nm_ab_fr_index,
    rec_i,                    \* records the merge loop has gone through
    countries_processed,
    enrich_status,            \* "pending", "completed" or "failed"
    sorted_phone_format_data,
    file,                     \* content of phone_formats_e164.json
    writes                    \* number of json.dump calls made

vars == <<pc, metadata, response, todo, phone_format_data, pre_enrich, gc_data,
          iso_alpha_2_index, gc_id_index, gc_nm_ab_en_index, gc_nm_ab_fr_index,
          rec_i, countries_processed, enrich_status, sorted_phone_format_data,
          file, writes>>

----------------------------------------------------------------------------
(* Bounds of the model *)

\* the largest national-number length a region's possible_length holds
MaxLen == 9

\* the largest number of rows of the fetched dataset
MaxRecords == 2

----------------------------------------------------------------------------
(* Strings *)

\* the characters of region codes and digits, in code point order
CharSet == <<"0", "1", "2", "3", "4", "5", "6", "7", "8", "9",
             "A", "B", "C", "D", "E", "F", "G", "H", "I", "J", "K", "L", "M",
             "N", "O", "P", "Q", "R", "S", "T", "U", "V", "W", "X", "Y", "Z">>

Ord(c) == CHOOSE k \in DOMAIN CharSet : CharSet[k] = c

\* Python's < on str: the first differing character decides, a proper prefix
\* is smaller
StrLess(a, b) ==
    \E k \in 1..(Len(a) + 1) :
        /\ k <= Len(b)
        /\ \A j \in 1..(k - 1) : a[j] = b[j]
        /\ (k <= Len(a) => Ord(a[k]) < Ord(b[k]))

RECURSIVE str(_)
\* str(n) of a non-negative int: its decimal digits
str(n) ==
    IF n < 10 THEN <<CharSet[n + 1]>>
    ELSE str(n \div 10) \o <<CharSet[(n % 10) + 1]>>

RECURSIVE int(_)
\* int(s) of a string of decimal digits
int(s) ==
    IF s = <<>> THEN 0
    ELSE int(SubSeq(s, 1, Len(s) - 1)) * 10 + (Ord(s[Len(s)]) - 1)

\* "X" * n
Xs(n) == [k \in 1..n |-> "X"]

MinOf(seq) == CHOOSE m \in {seq[k] : k \in DOMAIN seq} :
                  \A k \in DOMAIN seq : m <= seq[k]

\* max(possible_length)
MaxOf(seq) == CHOOSE m \in {seq[k] : k \in DOMAIN seq} :
                  \A k \in DOMAIN seq : m >= seq[k]

----------------------------------------------------------------------------
(* Dicts in insertion order *)

Keys(d) == {d[k][1] : k \in DOMAIN d}

KeyOrder(d) == [k \in DOMAIN d |-> d[k][1]]

Position(d, key) == CHOOSE k \in DOMAIN d : d[k][1] = key

Get(d, key) == d[Position(d, key)][2]

\* d[key] = value
SetKey(d, key, value) ==
    IF key \in Keys(d)
    THEN [d EXCEPT ![Position(d, key)] = <<key, value>>]
    ELSE Append(d, <<key, value>>)

\* data[field] = value
SetItem(data, field, value) ==
    [f \in DOMAIN data \cup {field} |-> IF f = field THEN value ELSE data[f]]

----------------------------------------------------------------------------
(* The harvester *)

CA == <<"C", "A">>
US == <<"U", "S">>
GB == <<"G", "B">>
FJ == <<"F", "J">>

SUPPORTED_REGIONS == {CA, US, GB}

ExampleFormatOffByOne(country_code, max_length) ==
    <<"+">> \o country_code \o <<" ">> \o
        (IF max_length < 4 THEN Xs(max_length)
         ELSE IF max_length < 7
              THEN <<"X", "X", "X", " ">> \o Xs(max_length - 3)
              ELSE <<"X", "X", "X", " ", "X", "X", "X", " ">> \o Xs(max_length - 6))

ExampleFormat(country_code, max_length) ==
    <<"+">> \o country_code \o <<" ">> \o
        (IF max_length <= 4 THEN Xs(max_length)
         ELSE IF max_length <= 7
              THEN <<"X", "X", "X", " ">> \o Xs(max_length - 3)
              ELSE <<"X", "X", "X", " ", "X", "X", "X", " ">> \o Xs(max_length - 6))

\* the condition of line 21
Usable(m) == m.kind = "ok" /\ m.possible_length # <<>>

MaxLengthAsMin(m) == MinOf(m.possible_length)

MaxLength(m) == MaxOf(m.possible_length)

\* the record of lines 40-44
HarvestRecord(m) ==
    LET country_code == str(m.country_code)
        max_length == MaxLength(m)
    IN [country_code |-> country_code,
        max_length |-> max_length,
        example_format |-> ExampleFormat(country_code, max_length)]

\* one iteration of the loop of line 17; a lookup that raises is caught at
\* line 45 and the loop goes on
HarvestRegion ==
    /\ pc = "harvest"
    /\ todo # <<>>
    /\ LET region == Head(todo)
       IN phone_format_data' =
              IF metadata[region].kind # "raises" /\ Usable(metadata[region])
              THEN SetKey(phone_format_data, region, HarvestRecord(metadata[region]))
              ELSE phone_format_data
    /\ todo' = Tail(todo)
    /\ UNCHANGED <<pc, metadata, response, pre_enrich, gc_data, iso_alpha_2_index,
                   gc_id_index, gc_nm_ab_en_index, gc_nm_ab_fr_index, rec_i,
                   countries_processed, enrich_status, sorted_phone_format_data,
                   file, writes>>

HarvestReturn ==
    /\ pc = "harvest"
    /\ todo = <<>>
    /\ pc' = "derive"
    /\ UNCHANGED <<metadata, response, todo, phone_format_data, pre_enrich, gc_data,
                   iso_alpha_2_index, gc_id_index, gc_nm_ab_en_index,
                   gc_nm_ab_fr_index, rec_i, countries_processed, enrich_status,
                   sorted_phone_format_data, file, writes>>

----------------------------------------------------------------------------
(* The derived fields *)

TotalMaxDigitsAsValue(data) == int(data["country_code"]) + data["max_length"]

TotalMaxDigits(data) == Len(data["country_code"]) + data["max_length"]

Regex(data) ==
    <<"^", "\\", "+">> \o data["country_code"] \o <<"\\", "d", "{">>
        \o str(data["max_length"]) \o <<"}", "$">>

Derived(key, data) ==
    SetItem(SetItem(SetItem(data, "ISO", key),
                    "total_max_digits", TotalMaxDigits(data)),
            "regex", Regex(data))

AddDerivedFields ==
    /\ pc = "derive"
    /\ phone_format_data' =
          [k \in DOMAIN phone_format_data |->
              <<phone_format_data[k][1],
                Derived(phone_format_data[k][1], phone_format_data[k][2])>>]
    /\ pre_enrich' = phone_format_data'
    /\ pc' = "fetch"
    /\ UNCHANGED <<metadata, response, todo, gc_data, iso_alpha_2_index, gc_id_index,
                   gc_nm_ab_en_index, gc_nm_ab_fr_index, rec_i, countries_processed,
                   enrich_status, sorted_phone_format_data, file, writes>>

----------------------------------------------------------------------------
(* The enrichment *)

\* JSON values: a cell of a row is a string, null or a list; a row is a list of
\* cells or a number; a field is an object with an id or a number
Str(s) == [type |-> "str", val |-> s]
Null == [type |-> "null", val |-> <<>>]
List == [type |-> "list", val |-> <<"1">>]

None == -1

FallbackIsoIndex == 19
FallbackGcIdIndex == 0
FallbackEnIndex == 4
FallbackFrIndex == 5

\* the fields before the first one that is no object: field.get raises there
Scanned(fields) ==
    LET bad == {k \in DOMAIN fields : fields[k].type # "obj"}
    IN IF bad = {} THEN fields
       ELSE SubSeq(fields, 1, (CHOOSE k \in bad : \A j \in bad : k <= j) - 1)

FieldsRaise(fields) == \E k \in DOMAIN fields : fields[k].type # "obj"

\* the index the loop of lines 89-97 leaves for an id: its last position
IndexOf(fields, id) ==
    LET at == {k \in DOMAIN fields : fields[k].id = id}
    IN IF at = {} THEN None
       ELSE (CHOOSE k \in at : \A j \in at : k >= j) - 1

ByName(fields) ==
    [iso |-> IndexOf(fields, "ISO_ALPHA_2_CD"),
     gc_id |-> IndexOf(fields, "GC_ID"),
     en |-> IndexOf(fields, "GC_NM_AB_EN"),
     fr |-> IndexOf(fields, "GC_NM_AB_FR")]

ResolveIndicesKeepNamed(fields, records) ==
    IF ByName(fields).iso = None /\ records # <<>>
    THEN [ByName(fields) EXCEPT !.iso = FallbackIsoIndex]
    ELSE ByName(fields)

\* lines 83-116: the indices by name, or the fallback
ResolveIndices(fields, records) ==
    IF ByName(fields).iso = None /\ records # <<>>
    THEN [iso |-> FallbackIsoIndex, gc_id |-> FallbackGcIdIndex,
          en |-> FallbackEnIndex, fr |-> FallbackFrIndex]
    ELSE ByName(fields)

\* the condition of line 118
AllResolved ==
    /\ iso_alpha_2_index # None
    /\ gc_id_index # None
    /\ gc_nm_ab_en_index # None
    /\ gc_nm_ab_fr_index # None

MaxIndex ==
    MaxOf(<<iso_alpha_2_index, gc_id_index, gc_nm_ab_en_index, gc_nm_ab_fr_index>>)

\* the condition of line 120
Covers(record) == Len(record.cells) > MaxIndex

IsoCodeFromIdColumn(record) == record.cells[gc_id_index + 1]

\* line 121
IsoCode(record) == record.cells[iso_alpha_2_index + 1]

Truthy(cell) == cell.type # "null" /\ cell.val # <<>>

\* iso_code in phone_format_data, for a hashable iso_code
InTable(cell, d) == cell.type = "str" /\ cell.val \in Keys(d)

\* lines 124-126
Attach(d, record) ==
    LET key == IsoCode(record).val
    IN SetKey(d, key,
           SetItem(SetItem(SetItem(Get(d, key),
               "GC_ID", record.cells[gc_id_index + 1]),
               "GC_NM_AB_EN", record.cells[gc_nm_ab_en_index + 1]),
               "GC_NM_AB_FR", record.cells[gc_nm_ab_fr_index + 1]))

MergeCreating(d, record) ==
    IF Covers(record) /\ Truthy(IsoCode(record)) /\ IsoCode(record).type = "str"
    THEN LET key == IsoCode(record).val
             old == IF key \in Keys(d) THEN Get(d, key) ELSE [ISO |-> key]
         IN SetKey(d, key,
                SetItem(SetItem(SetItem(old,
                    "GC_ID", record.cells[gc_id_index + 1]),
                    "GC_NM_AB_EN", record.cells[gc_nm_ab_en_index + 1]),
                    "GC_NM_AB_FR", record.cells[gc_nm_ab_fr_index + 1]))
    ELSE d

\* lines 120-127 for a record that raises nothing
Merge(d, record) ==
    IF Covers(record) /\ Truthy(IsoCode(record)) /\ InTable(IsoCode(record), d)
    THEN Attach(d, record)
    ELSE d

\* len(record) of a number (line 120), or hashing a list (line 122)
RecordRaises(record) ==
    \/ record.type # "list"
    \/ /\ Covers(record)
       /\ Truthy(IsoCode(record))
       /\ IsoCode(record).type = "list"

\* lines 76-79: the request, the status check or the JSON parse raises
FetchRaises ==
    /\ pc = "fetch"
    /\ response.status # "ok"
    /\ pc' = "except"
    /\ UNCHANGED <<metadata, response, todo, phone_format_data, pre_enrich, gc_data,
                   iso_alpha_2_index, gc_id_index, gc_nm_ab_en_index,
                   gc_nm_ab_fr_index, rec_i, countries_processed, enrich_status,
                   sorted_phone_format_data, file, writes>>

Fetch ==
    /\ pc = "fetch"
    /\ response.status = "ok"
    /\ gc_data' = [fields |-> response.fields, records |-> response.records]
    /\ pc' = "resolve"
    /\ UNCHANGED <<metadata, response, todo, phone_format_data, pre_enrich,
                   iso_alpha_2_index, gc_id_index, gc_nm_ab_en_index,
                   gc_nm_ab_fr_index, rec_i, countries_processed, enrich_status,
                   sorted_phone_format_data, file, writes>>

\* lines 83-116
Resolve ==
    /\ pc = "resolve"
    /\ LET idx == IF FieldsRaise(gc_data.fields)
                  THEN ByName(Scanned(gc_data.fields))
                  ELSE ResolveIndices(gc_data.fields, gc_data.records)
       IN /\ iso_alpha_2_index' = idx.iso
          /\ gc_id_index' = idx.gc_id
          /\ gc_nm_ab_en_index' = idx.en
          /\ gc_nm_ab_fr_index' = idx.fr
    /\ pc' = IF FieldsRaise(gc_data.fields) THEN "except" ELSE "merge"
    /\ UNCHANGED <<metadata, response, todo, phone_format_data, pre_enrich, gc_data,
                   rec_i, countries_processed, enrich_status,
                   sorted_phone_format_data, file, writes>>

\* one iteration of the loop of line 119
MergeRecord ==
    /\ pc = "merge"
    /\ AllResolved
    /\ rec_i < Len(gc_data.records)
    /\ LET record == gc_data.records[rec_i + 1]
       IN IF RecordRaises(record)
          THEN /\ pc' = "except"
               /\ UNCHANGED <<phone_format_data, rec_i, countries_processed>>
          ELSE /\ phone_format_data' = Merge(phone_format_data, record)
               /\ countries_processed' =
                     IF /\ Covers(record)
                        /\ Truthy(IsoCode(record))
                        /\ InTable(IsoCode(record), phone_format_data)
                     THEN countries_processed + 1
                     ELSE countries_processed
               /\ rec_i' = rec_i + 1
               /\ pc' = pc
    /\ UNCHANGED <<metadata, response, todo, pre_enrich, gc_data, iso_alpha_2_index,
                   gc_id_index, gc_nm_ab_en_index, gc_nm_ab_fr_index, enrich_status,
                   sorted_phone_format_data, file, writes>>

\* line 129: the try block ends, the loop done or never entered
EnrichmentCompletes ==
    /\ pc = "merge"
    /\ (~AllResolved \/ rec_i = Len(gc_data.records))
    /\ enrich_status' = "completed"
    /\ pc' = "sort"
    /\ UNCHANGED <<metadata, response, todo, phone_format_data, pre_enrich, gc_data,
                   iso_alpha_2_index, gc_id_index, gc_nm_ab_en_index,
                   gc_nm_ab_fr_index, rec_i, countries_processed,
                   sorted_phone_format_data, file, writes>>

AfterExceptExit == "done"

\* the handler of lines 130-134 falls through to line 136
AfterExcept == "sort"

EnrichmentExcept ==
    /\ pc = "except"
    /\ enrich_status' = "failed"
    /\ pc' = AfterExcept
    /\ UNCHANGED <<metadata, response, todo, phone_format_data, pre_enrich, gc_data,
                   iso_alpha_2_index, gc_id_index, gc_nm_ab_en_index,
                   gc_nm_ab_fr_index, rec_i, countries_processed,
                   sorted_phone_format_data, file, writes>>

----------------------------------------------------------------------------
(* The sort and the write *)

AddToGroupOverwriting(groups, country_code, item) ==
    SetKey(groups, country_code, <<item>>)

\* lines 146-149
AddToGroup(groups, country_code, item) ==
    IF country_code \in Keys(groups)
    THEN SetKey(groups, country_code, Append(Get(groups, country_code), item))
    ELSE SetKey(groups, country_code, <<item>>)

RECURSIVE GroupsOf(_, _)
\* country_code_groups after the first n entries of the table
GroupsOf(d, n) ==
    IF n = 0 THEN <<>>
    ELSE AddToGroup(GroupsOf(d, n - 1), d[n][2]["country_code"], d[n])

CodeLessAsText(a, b) == StrLess(a, b)

\* key=int
CodeLess(a, b) == int(a) < int(b)

\* key=lambda x: x[0]
ItemLess(a, b) == StrLess(a[1], b[1])

\* sorted() is stable: x goes after the elements that are not greater
InsertCode(s, x) ==
    LET n == Cardinality({k \in DOMAIN s : ~CodeLess(x, s[k])})
    IN SubSeq(s, 1, n) \o <<x>> \o SubSeq(s, n + 1, Len(s))

InsertItem(s, x) ==
    LET n == Cardinality({k \in DOMAIN s : ~ItemLess(x, s[k])})
    IN SubSeq(s, 1, n) \o <<x>> \o SubSeq(s, n + 1, Len(s))

RECURSIVE SortedCodes(_)
SortedCodes(s) ==
    IF s = <<>> THEN <<>>
    ELSE InsertCode(SortedCodes(SubSeq(s, 1, Len(s) - 1)), s[Len(s)])

RECURSIVE SortedItems(_)
SortedItems(s) ==
    IF s = <<>> THEN <<>>
    ELSE InsertItem(SortedItems(SubSeq(s, 1, Len(s) - 1)), s[Len(s)])

RECURSIVE PutAll(_, _)
\* line 155 for every item of a sorted group
PutAll(d, items) ==
    IF items = <<>> THEN d
    ELSE PutAll(SetKey(d, items[1][1], items[1][2]), Tail(items))

RECURSIVE Rebuild(_, _, _)
\* lines 152-155
Rebuild(d, codes, groups) ==
    IF codes = <<>> THEN d
    ELSE Rebuild(PutAll(d, SortedItems(Get(groups, codes[1]))), Tail(codes), groups)

SortTable(d) ==
    LET groups == GroupsOf(d, Len(d))
    IN Rebuild(<<>>, SortedCodes(KeyOrder(groups)), groups)

Sort ==
    /\ pc = "sort"
    /\ sorted_phone_format_data' = SortTable(phone_format_data)
    /\ pc' = "write"
    /\ UNCHANGED <<metadata, response, todo, phone_format_data, pre_enrich, gc_data,
                   iso_alpha_2_index, gc_id_index, gc_nm_ab_en_index,
                   gc_nm_ab_fr_index, rec_i, countries_processed, enrich_status,
                   file, writes>>

\* lines 163-164
WriteFile ==
    /\ pc = "write"
    /\ file' = sorted_phone_format_data
    /\ writes' = writes + 1
    /\ pc' = "done"
    /\ UNCHANGED <<metadata, response, todo, phone_format_data, pre_enrich, gc_data,
                   iso_alpha_2_index, gc_id_index, gc_nm_ab_en_index,
                   gc_nm_ab_fr_index, rec_i, countries_processed, enrich_status,
                   sorted_phone_format_data>>

Next ==
    \/ HarvestRegion
    \/ HarvestReturn
    \/ AddDerivedFields
    \/ FetchRaises
    \/ Fetch
    \/ Resolve
    \/ MergeRecord
    \/ EnrichmentCompletes
    \/ EnrichmentExcept
    \/ Sort
    \/ WriteFile

----------------------------------------------------------------------------
(* The inputs: the phone metadata library and the remote dataset *)

Meta(kind, country_code, possible_length) ==
    [kind |-> kind, country_code |-> country_code,
     possible_length |-> possible_length]

\* metadata_for_region returns None, a metadata without general_desc, or raises
Unusable == {Meta("none", 0, <<>>), Meta("no_desc", 1, <<>>), Meta("raises", 0, <<>>)}

CountryCodes == {1, 7, 44}

PossibleLengths ==
    {<<n>> : n \in 1..MaxLen}
        \cup {<<n, 1>> : n \in 2..MaxLen} \cup {<<1, n>> : n \in 2..MaxLen}

\* the iteration orders of the set SUPPORTED_REGIONS
Orders ==
    {s \in [1..Cardinality(SUPPORTED_REGIONS) -> SUPPORTED_REGIONS] :
        \A i, j \in DOMAIN s : i # j => s[i] # s[j]}

\* US and CA share a country code
Plain == (CA :> Meta("ok", 1, <<7, MaxLen>>)) @@ (US :> Meta("ok", 1, <<MaxLen>>))
             @@ (GB :> Meta("ok", 44, <<MaxLen>>))

Obj(id) == [type |-> "obj", id |-> id]
NoObj == [type |-> "num", id |-> ""]

FieldLists ==
    {<<>>,
     <<Obj("ISO_ALPHA_2_CD"), Obj("GC_ID"), Obj("GC_NM_AB_EN"), Obj("GC_NM_AB_FR")>>,
     <<Obj("GC_ID"), Obj("GC_NM_AB_EN"), Obj("GC_NM_AB_FR"), Obj("ISO_ALPHA_2_CD")>>,
     <<Obj("ISO_ALPHA_2_CD"), Obj("_id"), Obj("GC_ID"), Obj("GC_NM_AB_EN"),
       Obj("GC_NM_AB_FR")>>,
     <<Obj("ISO_ALPHA_2_CD"), Obj("GC_ID"), Obj("GC_NM_AB_EN")>>,
     <<Obj("_id"), Obj("GC_ID"), Obj("GC_NM_AB_EN"), Obj("GC_NM_AB_FR")>>,
     <<Obj("ISO_ALPHA_2_CD"), Obj("GC_ID"), NoObj, Obj("GC_NM_AB_EN"),
       Obj("GC_NM_AB_FR")>>}

\* a row of n cells with v at index p; every other cell names its row width and
\* its column
Row(n, p, v) ==
    [type |-> "list",
     cells |-> [j \in 1..n |->
                   IF j = p + 1 THEN v ELSE Str(str(n) \o <<"-">> \o str(j - 1))]]

NoRow == [type |-> "num", cells |-> <<>>]

RowShapes == {<<4, 0>>, <<4, 3>>, <<20, 0>>, <<20, 19>>}

Rows ==
    {Row(sh[1], sh[2], v) : sh \in RowShapes, v \in {Str(CA), Str(FJ), List}}
        \cup {Row(4, 0, Null), NoRow}

RecordLists == UNION {[1..n -> Rows] : n \in 0..MaxRecords}

Answer(status, fields, records) ==
    [status |-> status, fields |-> fields, records |-> records]

Failures ==
    {Answer(st, <<>>, <<>>) : st \in {"connection_error", "http_error", "json_error"}}

Datasets == {Answer("ok", f, r) : f \in FieldLists, r \in RecordLists}

OneDataset ==
    Answer("ok",
           <<Obj("ISO_ALPHA_2_CD"), Obj("GC_ID"), Obj("GC_NM_AB_EN"), Obj("GC_NM_AB_FR")>>,
           <<Row(4, 0, Str(CA))>>)

\* every way a region's lookup can go, with a plain dataset
InitHarvest ==
    /\ metadata \in [SUPPORTED_REGIONS ->
                        Unusable \cup {Meta("ok", 1, <<>>)}
                            \cup {Meta("ok", cc, <<MaxLen>>) : cc \in CountryCodes}]
    /\ todo \in Orders
    /\ response \in {Answer("connection_error", <<>>, <<>>), OneDataset}

\* every possible_length of one region, with a plain dataset
InitLengths ==
    /\ \E cc \in CountryCodes, pl \in PossibleLengths :
           metadata = [Plain EXCEPT ![CA] = Meta("ok", cc, pl)]
    /\ todo \in {<<US, GB, CA>>, <<GB, CA, US>>}
    /\ response = OneDataset

\* every answer of the remote, with plain metadata
InitEnrich ==
    /\ metadata = Plain
    /\ todo = <<US, GB, CA>>
    /\ response \in Failures \cup Datasets

Init ==
    /\ pc = "harvest"
    /\ (InitHarvest \/ InitLengths \/ InitEnrich)
    /\ phone_format_data = <<>>
    /\ pre_enrich = <<>>
    /\ gc_data = [fields |-> <<>>, records |-> <<>>]
    /\ iso_alpha_2_index = None
    /\ gc_id_index = None
    /\ gc_nm_ab_en_index = None
    /\ gc_nm_ab_fr_index = None
    /\ rec_i = 0
    /\ countries_processed = 0
    /\ enrich_status = "pending"
    /\ sorted_phone_format_data = <<>>
    /\ file = <<>>
    /\ writes = 0

Spec == Init /\ [][Next]_vars

----------------------------------------------------------------------------
(* Properties *)

BaseFields ==
    {"country_code", "max_length", "example_format", "ISO", "total_max_digits",
     "regex"}

GCFields == {"GC_ID", "GC_NM_AB_EN", "GC_NM_AB_FR"}

Entries(d) == {d[k] : k \in DOMAIN d}

\* the keys of d go up by the number of their country code and, where that is
\* equal, by their text
InOrder(d) ==
    \A i, j \in DOMAIN d :
        i < j =>
            /\ int(d[i][2]["country_code"]) <= int(d[j][2]["country_code"])
            /\ d[i][2]["country_code"] = d[j][2]["country_code"]
                   => StrLess(d[i][1], d[j][1])

\* C1: the written mapping is ordered by the integer value of country_code,
\* and by ISO key within one country code; US(1), CA(1), GB(44) is written as
\* CA, US, GB.
C1_SortedOutput ==
    /\ pc \in {"write", "done"} => InOrder(sorted_phone_format_data)
    /\ pc = "done" => InOrder(file)
    /\ (/\ pc = "done"
        /\ Keys(phone_format_data) = {US, CA, GB}
        /\ \A r \in {US, CA} :
               Get(phone_format_data, r)["country_code"] = <<"1">>
        /\ Get(phone_format_data, GB)["country_code"] = <<"4", "4">>)
           => KeyOrder(file) = <<CA, US, GB>>

\* a table harvested out of order, with 7 and 44 among its country codes, has
\* been written
C1_Witness ==
    /\ pc = "done"
    /\ Len(file) = 3
    /\ KeyOrder(file) # KeyOrder(phone_format_data)
    /\ \E a, b \in DOMAIN file :
           /\ a < b
           /\ file[a][2]["country_code"] = <<"7">>
           /\ file[b][2]["country_code"] = <<"4", "4">>

\* the resolved ISO column of some row of the fetched dataset holds the key
InIsoColumn(key) ==
    /\ iso_alpha_2_index >= 0
    /\ \E k \in DOMAIN gc_data.records :
           /\ gc_data.records[k].type = "list"
           /\ Len(gc_data.records[k].cells) > iso_alpha_2_index
           /\ gc_data.records[k].cells[iso_alpha_2_index + 1] = Str(key)

\* row k of the dataset has a cell at each of the four resolved indices and
\* the key at the ISO index
Qualifies(k, key) ==
    /\ iso_alpha_2_index >= 0 /\ gc_id_index >= 0
    /\ gc_nm_ab_en_index >= 0 /\ gc_nm_ab_fr_index >= 0
    /\ gc_data.records[k].type = "list"
    /\ Len(gc_data.records[k].cells) > iso_alpha_2_index
    /\ Len(gc_data.records[k].cells) > gc_id_index
    /\ Len(gc_data.records[k].cells) > gc_nm_ab_en_index
    /\ Len(gc_data.records[k].cells) > gc_nm_ab_fr_index
    /\ gc_data.records[k].cells[iso_alpha_2_index + 1] = Str(key)

C3_FailureLeavesTable ==
    enrich_status = "failed" => phone_format_data = pre_enrich

\* C4: the enrichment adds and removes no record, changes no base field, and
\* changes a record only by setting GC_ID, GC_NM_AB_EN and GC_NM_AB_FR; a row
\* whose ISO value is no key creates no record.
C4_EnrichmentFrame ==
    pc \notin {"harvest", "derive"} =>
        /\ KeyOrder(phone_format_data) = KeyOrder(pre_enrich)
        /\ \A k \in DOMAIN phone_format_data :
               LET new == phone_format_data[k][2]
                   old == pre_enrich[k][2]
               IN /\ DOMAIN old = BaseFields
                  /\ \A f \in BaseFields : new[f] = old[f]
                  /\ DOMAIN new \ DOMAIN old \in {{}, GCFields}

\* the merge loop went through a row that gave a record its GC fields and a
\* covering row whose ISO value, FJ, is no key
C4_Witness ==
    /\ enrich_status = "completed"
    /\ \E d \in Entries(phone_format_data) : GCFields \subseteq DOMAIN d[2]
    /\ \E k \in 1..rec_i : Qualifies(k, FJ)

\* C5: the written keys are the regions the harvester made a record for, all
\* of them supported regions, and the sort only reorders the table.
C5_SortPermutes ==
    pc \in {"write", "done"} =>
        /\ Keys(sorted_phone_format_data) =
               {r \in SUPPORTED_REGIONS :
                   metadata[r].kind = "ok" /\ metadata[r].possible_length # <<>>}
        /\ Keys(sorted_phone_format_data) = Keys(phone_format_data)
        /\ Len(sorted_phone_format_data) = Len(phone_format_data)
        /\ \A key \in Keys(phone_format_data) :
               Get(sorted_phone_format_data, key) = Get(phone_format_data, key)
        /\ pc = "done" => file = sorted_phone_format_data

\* two regions of one country code are written and a third region was skipped
C5_Witness ==
    /\ pc = "done"
    /\ Keys(file) = {CA, US}
    /\ Get(file, CA)["country_code"] = Get(file, US)["country_code"]
    /\ KeyOrder(phone_format_data) = <<US, CA>>

HoldsTotal(d) ==
    \A e \in Entries(d) :
        e[2]["total_max_digits"] = Len(e[2]["country_code"]) + e[2]["max_length"]

\* C6: in every record total_max_digits is the number of characters of
\* country_code plus max_length, after the enrichment and the sort too,
\* whether the enrichment completed or failed.
C6_TotalMaxDigits ==
    /\ pc \notin {"harvest", "derive"} => HoldsTotal(phone_format_data)
    /\ HoldsTotal(sorted_phone_format_data)
    /\ HoldsTotal(file)

\* a record of country code 44 was enriched, sorted and written
C6_Witness ==
    /\ pc = "done"
    /\ enrich_status = "completed"
    /\ \E e \in Entries(file) :
           /\ e[2]["country_code"] = <<"4", "4">>
           /\ "GC_ID" \in DOMAIN e[2]
           /\ e[2]["max_length"] = 6
           /\ e[2]["total_max_digits"] = 8

\* where the mask of a number of n digits has its spaces
Spaces(n) == IF n <= 4 THEN {} ELSE IF n <= 7 THEN {4} ELSE {4, 8}

\* C7: example_format is "+", the country code, a space and a mask of
\* max_length X's: ungrouped up to 4, "XXX " and the rest up to 7, "XXX XXX "
\* and the rest above 7.
C7_ExampleFormat ==
    \A e \in Entries(phone_format_data) :
        LET n == e[2]["max_length"]
            cc == e[2]["country_code"]
            fmt == e[2]["example_format"]
            mask == SubSeq(fmt, Len(cc) + 3, Len(fmt))
        IN /\ n >= 1
           /\ SubSeq(fmt, 1, Len(cc) + 2) = <<"+">> \o cc \o <<" ">>
           /\ Len(mask) = n + Cardinality(Spaces(n))
           /\ \A k \in DOMAIN mask :
                  mask[k] = IF k \in Spaces(n) THEN " " ELSE "X"
           /\ Cardinality({k \in DOMAIN mask : mask[k] = "X"}) = n
           /\ n = 6 => mask = <<"X", "X", "X", " ", "X", "X", "X">>
           /\ n = 3 => mask = <<"X", "X", "X">>

\* the table holds "+1 XXX XXX" for 6 digits and a mask of the third tier
C7_Witness ==
    /\ \E e \in Entries(phone_format_data) :
           /\ e[2]["max_length"] = 6
           /\ e[2]["example_format"] =
                  <<"+", "1", " ", "X", "X", "X", " ", "X", "X", "X">>
    /\ \E e \in Entries(phone_format_data) :
           /\ e[2]["max_length"] > 7
           /\ Len(e[2]["example_format"]) = Len(e[2]["country_code"]) + 4
                                                + e[2]["max_length"]

\* the program can take its next step; the sort has no condition but its place
CanProceed ==
    \/ pc = "sort"
    \/ ENABLED (HarvestRegion \/ HarvestReturn \/ AddDerivedFields \/ FetchRaises
                    \/ Fetch \/ Resolve \/ MergeRecord \/ EnrichmentCompletes
                    \/ EnrichmentExcept \/ WriteFile)

\* C8: whatever the enrichment's outcome the program goes on to the sort and
\* then writes the file once, as its last step; nothing is written before.
C8_WriteOnceLast ==
    /\ pc # "done" => writes = 0 /\ file = <<>> /\ CanProceed
    /\ pc = "done" =>
           /\ writes = 1
           /\ enrich_status \in {"completed", "failed"}
           /\ file = sorted_phone_format_data
           /\ Keys(file) = Keys(phone_format_data)
    /\ pc = "write" => Keys(sorted_phone_format_data) = Keys(phone_format_data)

\* the file was written after an exception inside the merge loop
C8_Witness ==
    /\ pc = "done"
    /\ writes = 1
    /\ enrich_status = "failed"
    /\ rec_i >= 1
    /\ file # <<>>

\* idx is the last position of id in the fields list, or None
IsNamed(id, idx) ==
    IF \E k \in DOMAIN gc_data.fields : gc_data.fields[k].id = id
    THEN /\ idx >= 0
         /\ idx < Len(gc_data.fields)
         /\ gc_data.fields[idx + 1].id = id
         /\ \A k \in (idx + 2)..Len(gc_data.fields) : gc_data.fields[k].id # id
    ELSE idx = -1

\* C9: the four indices are the positions of the four ids in the fields list,
\* or 19, 0, 4, 5 when the ISO id is not among them; every row gone through
\* that covers the four indices gives its three values to the record of its
\* ISO code.
C9_ColumnResolution ==
    (pc = "merge" \/ enrich_status = "completed") =>
        /\ IF \E k \in DOMAIN gc_data.fields : gc_data.fields[k].id = "ISO_ALPHA_2_CD"
           THEN /\ IsNamed("ISO_ALPHA_2_CD", iso_alpha_2_index)
                /\ IsNamed("GC_ID", gc_id_index)
                /\ IsNamed("GC_NM_AB_EN", gc_nm_ab_en_index)
                /\ IsNamed("GC_NM_AB_FR", gc_nm_ab_fr_index)
           ELSE gc_data.records # <<>> =>
                /\ iso_alpha_2_index = 19
                /\ gc_id_index = 0
                /\ gc_nm_ab_en_index = 4
                /\ gc_nm_ab_fr_index = 5
        /\ \A key \in Keys(phone_format_data) :
               LET rows == {k \in 1..rec_i : Qualifies(k, key)}
               IN IF rows = {}
                  THEN GCFields \cap DOMAIN Get(phone_format_data, key) = {}
                  ELSE LET last == gc_data.records[
                                       CHOOSE k \in rows : \A j \in rows : k >= j]
                           data == Get(phone_format_data, key)
                       IN /\ GCFields \subseteq DOMAIN data
                          /\ data["GC_ID"] = last.cells[gc_id_index + 1]
                          /\ data["GC_NM_AB_EN"] = last.cells[gc_nm_ab_en_index + 1]
                          /\ data["GC_NM_AB_FR"] = last.cells[gc_nm_ab_fr_index + 1]

\* the ISO id is missing, GC_ID is named at position 1, and a row of 20 cells
\* gave CA the values of its columns 0, 4 and 5
C9_Witness ==
    /\ enrich_status = "completed"
    /\ \A k \in DOMAIN gc_data.fields : gc_data.fields[k].id # "ISO_ALPHA_2_CD"
    /\ Len(gc_data.fields) > 1
    /\ gc_data.fields[2].id = "GC_ID"
    /\ iso_alpha_2_index = 19
    /\ CA \in Keys(phone_format_data)
    /\ GCFields \subseteq DOMAIN Get(phone_format_data, CA)
    /\ Get(phone_format_data, CA)["GC_ID"] = Str(<<"2", "0", "-", "0">>)
    /\ Get(phone_format_data, CA)["GC_NM_AB_FR"] = Str(<<"2", "0", "-", "5">>)

\* the regions the harvest loop has visited
Visited == SUPPORTED_REGIONS \ {todo[k] : k \in DOMAIN todo}

\* C10: the harvested table holds a record, with country_code, the maximum of
\* possible_length as max_length, and example_format, for exactly the visited
\* regions whose metadata has a non-empty possible_length and did not raise;
\* the other regions have no entry and do not stop the loop.
C10_Harvest ==
    /\ Keys(phone_format_data) =
           {r \in Visited :
               metadata[r].kind = "ok" /\ metadata[r].possible_length # <<>>}
    /\ Len(phone_format_data) = Cardinality(Keys(phone_format_data))
    /\ \A key \in Keys(phone_format_data) :
           LET data == Get(phone_format_data, key)
               lengths == metadata[key].possible_length
           IN /\ {"country_code", "max_length", "example_format"}
                      \subseteq DOMAIN data
              /\ int(data["country_code"]) = metadata[key].country_code
              /\ \E k \in DOMAIN lengths : lengths[k] = data["max_length"]
              /\ \A k \in DOMAIN lengths : lengths[k] <= data["max_length"]
    /\ pc # "harvest" => todo = <<>>

\* the loop ended with one region that raised, one without metadata and a
\* record for the third
C10_Witness ==
    /\ pc = "derive"
    /\ \E a, b, c \in SUPPORTED_REGIONS :
           /\ metadata[a].kind = "raises"
           /\ metadata[b].kind = "none"
           /\ KeyOrder(phone_format_data) = <<c>>
           /\ Get(phone_format_data, c)["max_length"] = MaxLen

====
